---- MODULE Spec2Model ----
(***************************************************************************)
(* A model of pyml_logger/Log.py: the Log class (static values, one value  *)
(* tree per iteration, the scope stack), its table exports, and            *)
(* logs_to_dataframe.                                                      *)
(*                                                                         *)
(* Strings are sequences of one-character strings, so that str.split,      *)
(* str.join, str.startswith and slicing are computed, not assumed.         *)
(* A Python value is a record [kind, v, d]:                                *)
(*   kind = "None"                    None                                 *)
(*   kind = "int",  v = n             the scalar n                         *)
(*   kind = "dict", d = f             a dict, f a function from keys       *)
(*   kind = "str",  d = s             the string s                         *)
(* A call's outcome is a record [log, exc, ret]: the Log after the call,   *)
(* the exception it raised ("" when it returned) and the returned value.   *)
(***************************************************************************)
EXTENDS Integers, Sequences, FiniteSets, TLC

VARIABLES s_var, d_var, t, scopes, fs, ret

vars == <<s_var, d_var, t, scopes, fs, ret>>

(***************************************************************************)
(* Bounds of the model.                                                    *)
(***************************************************************************)
MaxIter == 2
MaxDepth == 1
MaxLeaves == 3
ScopesMaxDepth == 2
ScopesMaxLeaves == 2
ExtMaxIter == 2
ExtMaxLeaves == 4
MergeMaxIter == 2
MergeMaxLeaves == 2
StateMaxIter == 2
StateMaxLeaves == 3
MaxMerged == 2

(***************************************************************************)
(* Python values.                                                          *)
(***************************************************************************)
None == [kind |-> "None", v |-> 0, d |-> <<>>]
IntV(n) == [kind |-> "int", v |-> n, d |-> <<>>]
DictV(f) == [kind |-> "dict", v |-> 0, d |-> f]
StrV(s) == [kind |-> "str", v |-> 0, d |-> s]
EmptyDict == [k \in {} |-> None]
IsDict(x) == x.kind = "dict"

\* d[k] = x on a dict held as a function
DictSet(f, k, x) == [j \in DOMAIN f \cup {k} |-> IF j = k THEN x ELSE f[j]]

\* list[i] with Python's negative indices: the 1-based position, 0 for IndexError
PyPos(seq, i) ==
  IF i >= 0 /\ i < Len(seq) THEN i + 1
  ELSE IF i < 0 /\ -i <= Len(seq) THEN Len(seq) + i + 1
  ELSE 0

(***************************************************************************)
(* Strings.                                                                *)
(***************************************************************************)
ITERATION_KEY == <<"_", "i", "t", "e", "r", "a", "t", "i", "o", "n">>
SCOPE_SEP == "."
STATIC_PREFIX == <<"_", "s", "_">>

\* the position of the first SCOPE_SEP of s, 0 when it has none
FirstSep(s) ==
  IF \E i \in 1..Len(s) : s[i] = SCOPE_SEP
  THEN CHOOSE i \in 1..Len(s) :
         s[i] = SCOPE_SEP /\ \A j \in 1..(i - 1) : s[j] # SCOPE_SEP
  ELSE 0

\* s.split(".")
RECURSIVE Split(_)
Split(s) ==
  LET i == FirstSep(s)
  IN  IF i = 0 THEN <<s>>
      ELSE <<SubSeq(s, 1, i - 1)>> \o Split(SubSeq(s, i + 1, Len(s)))

\* ".".join(parts)
RECURSIVE Join(_)
Join(parts) ==
  IF parts = <<>> THEN <<>>
  ELSE IF Len(parts) = 1 THEN parts[1]
  ELSE parts[1] \o <<SCOPE_SEP>> \o Join(Tail(parts))

\* l.startswith(p)
StartsWith(l, p) == Len(l) >= Len(p) /\ SubSeq(l, 1, Len(p)) = p

\* l[n:]
Slice(l, n) == SubSeq(l, n + 1, Len(l))

(***************************************************************************)
(* Log.__init__ and the Log as a value.                                    *)
(***************************************************************************)
\* s_var is an insertion-ordered dict: a sequence of <<key, value>>
NewLog == [s_var |-> <<>>, d_var |-> <<>>, t |-> -1, scopes |-> <<>>]

Self == [s_var |-> s_var, d_var |-> d_var, t |-> t, scopes |-> scopes]

Ok(log, x) == [log |-> log, exc |-> "", ret |-> x]
Raise(log, e) == [log |-> log, exc |-> e, ret |-> None]

(***************************************************************************)
(* The scope stack.                                                        *)
(***************************************************************************)
push_scope(log, name) ==
  Ok([log EXCEPT !.scopes = Append(@, name)], None)

\* the argument of push_scopes: None, a list of names, or a string
NoneArg == [kind |-> "None", list |-> <<>>, str |-> <<>>]
ListArg(l) == [kind |-> "list", list |-> l, str |-> <<>>]
StrArg(s) == [kind |-> "str", list |-> <<>>, str |-> s]

push_scopes(log, names) ==
  IF names.kind = "None" THEN Ok(log, IntV(0))
  ELSE LET l == IF names.kind = "str" THEN Split(names.str) ELSE names.list
       IN  Ok([log EXCEPT !.scopes = @ \o l], IntV(Len(l)))

pop_scope(log) ==
  IF log.scopes = <<>> THEN Raise(log, "IndexError")
  ELSE Ok([log EXCEPT !.scopes = SubSeq(@, 1, Len(@) - 1)],
          StrV(log.scopes[Len(log.scopes)]))

RECURSIVE pop_scopes(_, _)
pop_scopes(log, n) ==
  IF n <= 0 THEN Ok(log, None)
  ELSE LET r == pop_scope(log)
       IN  IF r.exc # "" THEN Raise(r.log, r.exc)
           ELSE pop_scopes(r.log, n - 1)

(***************************************************************************)
(* Recording.                                                              *)
(***************************************************************************)
\* s_var[key] = value
StaticSet(sv, key, value) ==
  IF \E i \in 1..Len(sv) : sv[i][1] = key
  THEN [i \in 1..Len(sv) |-> IF sv[i][1] = key THEN <<key, value>> ELSE sv[i]]
  ELSE Append(sv, <<key, value>>)

add_static_value(log, key, value) ==
  Ok([log EXCEPT !.s_var = StaticSet(@, key, value)], None)

\* the loop and the assignment of add_dynamic_value, from the value tt on:
\* [node |-> tt after the call, exc |-> the exception raised]
RECURSIVE AddInto(_, _, _, _)
AddInto(tt, sc, key, value) ==
  IF sc = <<>>
  THEN IF IsDict(tt)
       THEN [node |-> DictV(DictSet(tt.d, key, value)), exc |-> ""]
       ELSE [node |-> tt, exc |-> "TypeError"]
  ELSE IF ~IsDict(tt)
       THEN [node |-> tt, exc |-> "TypeError"]
       ELSE LET s == Head(sc)
                tt1 == IF s \in DOMAIN tt.d THEN tt.d
                       ELSE DictSet(tt.d, s, DictV(EmptyDict))
                r == AddInto(tt1[s], Tail(sc), key, value)
            IN  [node |-> DictV(DictSet(tt1, s, r.node)), exc |-> r.exc]

add_dynamic_value(log, key, value) ==
  LET p == PyPos(log.d_var, log.t)
  IN  IF p = 0 THEN Raise(log, "IndexError")
      ELSE LET r == AddInto(log.d_var[p], log.scopes, key, value)
               log1 == [log EXCEPT !.d_var[p] = r.node]
           IN  IF r.exc # "" THEN Raise(log1, r.exc) ELSE Ok(log1, None)

new_iteration(log) ==
  LET log1 == [log EXCEPT !.t = @ + 1, !.d_var = Append(@, DictV(EmptyDict))]
      r == add_dynamic_value(log1, ITERATION_KEY, IntV(log1.t))
  IN  IF r.exc # "" THEN Raise(r.log, r.exc)
      ELSE Ok([r.log EXCEPT !.scopes = <<>>], None)

\* kwargs is a sequence of <<key, value>>
RECURSIVE AddAll(_, _)
AddAll(log, kwargs) ==
  IF kwargs = <<>> THEN Ok(log, None)
  ELSE LET r == add_dynamic_value(log, kwargs[1][1], kwargs[1][2])
       IN  IF r.exc # "" THEN Raise(r.log, r.exc)
           ELSE AddAll(r.log, Tail(kwargs))

add_dynamic_values(log, scope_, kwargs) ==
  LET p == push_scopes(log, scope_)
      a == AddAll(p.log, kwargs)
  IN  IF a.exc # "" THEN Raise(a.log, a.exc)
      ELSE pop_scopes(a.log, p.ret.v)

(***************************************************************************)
(* Lookups.                                                                *)
(***************************************************************************)
\* the loop of get_last_dynamic_value over the scopes sc, from values on
RECURSIVE LastFrom(_, _, _, _)

\* LastFrom with `res` kept once it is found: a deeper value shadows nothing
LastFrom_KeepFirst(values, sc, key, res) ==
  IF sc = <<>> THEN [exc |-> "", ret |-> res]
  ELSE IF ~IsDict(values) THEN [exc |-> "TypeError", ret |-> None]
  ELSE IF Head(sc) \notin DOMAIN values.d THEN [exc |-> "", ret |-> res]
  ELSE LET v1 == values.d[Head(sc)]
       IN  IF ~IsDict(v1) THEN [exc |-> "TypeError", ret |-> None]
           ELSE LastFrom(v1, Tail(sc), key,
                         IF key \in DOMAIN v1.d /\ res = None
                         THEN v1.d[key] ELSE res)

LastFrom(values, sc, key, res) ==
  IF sc = <<>> THEN [exc |-> "", ret |-> res]
  ELSE IF ~IsDict(values) THEN [exc |-> "TypeError", ret |-> None]
  ELSE IF Head(sc) \notin DOMAIN values.d THEN [exc |-> "", ret |-> res]
  ELSE LET v1 == values.d[Head(sc)]
       IN  IF ~IsDict(v1) THEN [exc |-> "TypeError", ret |-> None]
           ELSE LastFrom(v1, Tail(sc), key,
                         IF key \in DOMAIN v1.d THEN v1.d[key] ELSE res)

get_last_dynamic_value(log, key) ==
  LET p == PyPos(log.d_var, log.t)
  IN  IF p = 0 THEN Raise(log, "IndexError")
      ELSE LET values == log.d_var[p]
               res == IF key \in DOMAIN values.d THEN values.d[key] ELSE None
               r == LastFrom(values, log.scopes, key, res)
           IN  [log |-> log, exc |-> r.exc, ret |-> r.ret]

\* the loop of get_scoped_value over the segments of the name, from tt on
RECURSIVE ScopedFrom(_, _)
ScopedFrom(tt, scope) ==
  IF scope = <<>> THEN [exc |-> "", ret |-> tt]
  ELSE IF ~IsDict(tt) THEN [exc |-> "TypeError", ret |-> None]
  ELSE IF Head(scope) \notin DOMAIN tt.d THEN [exc |-> "", ret |-> None]
  ELSE ScopedFrom(tt.d[Head(scope)], Tail(scope))

get_scoped_value(log, i, name) ==
  LET p == PyPos(log.d_var, i)
  IN  IF p = 0 THEN Raise(log, "IndexError")
      ELSE LET r == ScopedFrom(log.d_var[p], Split(name))
           IN  [log |-> log, exc |-> r.exc, ret |-> r.ret]

(***************************************************************************)
(* Column names.                                                           *)
(***************************************************************************)
\* d is the dict (a function), scope the list of the enclosing keys
RECURSIVE _generate_columns_names_from_dict(_, _)
_generate_columns_names_from_dict(d, scope) ==
  UNION { IF IsDict(d[k])
          THEN _generate_columns_names_from_dict(d[k].d, Append(scope, k))
          ELSE {Join(Append(scope, k))} : k \in DOMAIN d }

\* _generate_columns_names with range(self.t) for range(self.t + 1)
_generate_columns_names_OffByOne(log) ==
  IF \E i \in 0..(log.t - 1) : PyPos(log.d_var, i) = 0
  THEN [exc |-> "IndexError", cols |-> {}]
  ELSE [exc |-> "",
        cols |-> UNION { _generate_columns_names_from_dict(
                           log.d_var[PyPos(log.d_var, i)].d, <<>>) :
                         i \in 0..(log.t - 1) }]

\* the set `columns`; IndexError when range(self.t + 1) leaves d_var
_generate_columns_names(log) ==
  IF \E i \in 0..log.t : PyPos(log.d_var, i) = 0
  THEN [exc |-> "IndexError", cols |-> {}]
  ELSE [exc |-> "",
        cols |-> UNION { _generate_columns_names_from_dict(
                           log.d_var[PyPos(log.d_var, i)].d, <<>>) :
                         i \in 0..log.t }]

\* list(columns): a set's iteration order is not specified, so the list is
\* any one of the arrangements of the set
RECURSIVE ListsOf(_)
ListsOf(S) ==
  IF S = {} THEN {<<>>}
  ELSE UNION { {<<x>> \o l : l \in ListsOf(S \ {x})} : x \in S }

(***************************************************************************)
(* Tables. A table is [header, rows]: the code returns the list            *)
(* [header] + rows. `names` is the list that list(columns) gave.           *)
(***************************************************************************)
\* the exception of the first cell that raised, "" when none did
FirstExc(cells) ==
  IF \E i \in DOMAIN cells : cells[i].exc # ""
  THEN cells[CHOOSE i \in DOMAIN cells :
               cells[i].exc # "" /\ \A j \in 1..(i - 1) : cells[j].exc = ""].exc
  ELSE ""

RowsOf(cellrows) ==
  [r \in DOMAIN cellrows |-> [c \in DOMAIN cellrows[r] |-> cellrows[r][c].ret]]

FirstRowExc(cellrows) ==
  FirstExc([r \in DOMAIN cellrows |-> [exc |-> FirstExc(cellrows[r])]])

to_array(log, names) ==
  LET g == _generate_columns_names(log)
      cells == [r \in 1..Len(log.d_var) |->
                 [c \in 1..Len(names) |-> get_scoped_value(log, r - 1, names[c])]]
  IN  IF g.exc # "" THEN Raise(log, g.exc)
      ELSE IF FirstRowExc(cells) # "" THEN Raise(log, FirstRowExc(cells))
      ELSE [log |-> log, exc |-> "",
            ret |-> [header |-> names, rows |-> RowsOf(cells)]]

\* self.s_var[k], a KeyError when k is no key
StaticGet(sv, k) ==
  IF \E i \in 1..Len(sv) : sv[i][1] = k
  THEN [exc |-> "", ret |-> IntV(sv[CHOOSE i \in 1..Len(sv) : sv[i][1] = k][2])]
  ELSE [exc |-> "KeyError", ret |-> None]

ExtendedNames(log, names) ==
  <<ITERATION_KEY>> \o names \o
  [i \in 1..Len(log.s_var) |-> STATIC_PREFIX \o log.s_var[i][1]]

ExtendedCell(log, i, l) ==
  IF StartsWith(l, STATIC_PREFIX) THEN StaticGet(log.s_var, Slice(l, 3))
  ELSE IF l = ITERATION_KEY THEN [exc |-> "", ret |-> IntV(i)]
  ELSE LET r == get_scoped_value(log, i, l) IN [exc |-> r.exc, ret |-> r.ret]

to_extended_array(log, names) ==
  LET g == _generate_columns_names(log)
      all == ExtendedNames(log, names)
      cells == [r \in 1..Len(log.d_var) |->
                 [c \in 1..Len(all) |-> ExtendedCell(log, r - 1, all[c])]]
  IN  IF g.exc # "" THEN Raise(log, g.exc)
      ELSE IF FirstRowExc(cells) # "" THEN Raise(log, FirstRowExc(cells))
      ELSE [log |-> log, exc |-> "",
            ret |-> [header |-> all, rows |-> RowsOf(cells)]]

(***************************************************************************)
(* Persistence and the merge of several logs.                              *)
(***************************************************************************)
get_state(log) == [t |-> log.t, d_var |-> log.d_var]

set_state(log, state) ==
  LET log1 == [log EXCEPT !.t = state.t]
  IN  IF Len(log1.d_var) # 0 THEN Raise(log1, "AssertionError")
      ELSE Ok([log1 EXCEPT !.d_var = @ \o state.d_var], None)

\* pickle.dump(self, open(filename, "wb")): files is the file system, a
\* function from the names of the files written to the Log each one holds
save_file(files, log, filename) ==
  [f \in DOMAIN files \cup {filename} |-> IF f = filename THEN log ELSE files[f]]

LOG_IDX == <<"_", "l", "o", "g", "_", "i", "d", "x">>
LOG_FILE == <<"_", "l", "o", "g", "_", "f", "i", "l", "e">>

Range(l) == {l[i] : i \in DOMAIN l}

\* the keys of the dict all_columns, in insertion order
RECURSIVE FirstOccurrences(_)
FirstOccurrences(l) ==
  IF l = <<>> THEN <<>>
  ELSE LET r == FirstOccurrences(SubSeq(l, 1, Len(l) - 1))
           x == l[Len(l)]
       IN  IF x \in Range(r) THEN r ELSE Append(r, x)

RECURSIVE Concat(_)
Concat(ls) == IF ls = <<>> THEN <<>> ELSE Head(ls) \o Concat(Tail(ls))

\* index[name]: the last position that holds the name
IndexOf(header, name) ==
  CHOOSE j \in DOMAIN header :
    header[j] = name /\ \A k \in DOMAIN header : header[k] = name => k <= j

MergedCell(i, filename, arr, r, column_name) ==
  IF column_name = LOG_FILE THEN StrV(filename)
  ELSE IF column_name = LOG_IDX THEN IntV(i)
  ELSE IF column_name \in Range(arr.header)
       THEN arr.rows[r][IndexOf(arr.header, column_name)]
  ELSE None

\* lists[i] is the list that list(columns) gave in the i-th to_extended_array
logs_to_dataframe(files, filenames, lists) ==
  LET arrays == [i \in DOMAIN filenames |->
                  to_extended_array(files[filenames[i]], lists[i])]
      all_names == <<LOG_IDX, LOG_FILE>> \o
                   FirstOccurrences(Concat([i \in DOMAIN arrays |->
                                              arrays[i].ret.header]))
      lines == [i \in DOMAIN arrays |->
                 [r \in DOMAIN arrays[i].ret.rows |->
                   [c \in DOMAIN all_names |->
                     MergedCell(i - 1, filenames[i], arrays[i].ret, r,
                                all_names[c])]]]
  IN  IF FirstExc(arrays) # "" THEN [exc |-> FirstExc(arrays), ret |-> None]
      ELSE [exc |-> "", ret |-> [header |-> all_names, rows |-> Concat(lines)]]

(***************************************************************************)
(* The inputs of the calls. A universe U names the inputs a caller draws   *)
(* from and the size up to which it keeps calling:                         *)
(*   keys, scopenames, scopeargs, statickeys, values, lastkeys,            *)
(*   files                                                       inputs    *)
(*   iter, depth, leaves                                         sizes     *)
(***************************************************************************)
a == <<"a">>
a_a == Join(<<a, a>>)
loss == <<"l", "o", "s", "s">>
acc == <<"a", "c", "c">>
train == <<"t", "r", "a", "i", "n">>
eval == <<"e", "v", "a", "l">>
s_loss == STATIC_PREFIX \o loss
f0 == <<"f", "0">>
f1 == <<"f", "1">>
NoName == <<>>

\* the general caller: one name used as key and as scope, and a dotted key
Universe ==
  [iter |-> MaxIter, depth |-> MaxDepth, leaves |-> MaxLeaves,
   keys |-> {a, a_a}, scopenames |-> {a}, scopeargs |-> {},
   statickeys |-> {}, values |-> {1}, lastkeys |-> {a, a_a}, files |-> {}]

\* the caller of the scope stack: every form of the argument of push_scopes
ScopesUniverse ==
  [iter |-> 1, depth |-> ScopesMaxDepth, leaves |-> ScopesMaxLeaves,
   keys |-> {loss}, scopenames |-> {train, eval},
   scopeargs |-> {NoneArg, ListArg(<<>>), StrArg(NoName), StrArg(train),
                  ListArg(<<eval>>), StrArg(Join(<<train, eval>>)),
                  ListArg(<<train, eval>>)},
   statickeys |-> {}, values |-> {1}, lastkeys |-> {}, files |-> {}]

\* the caller of the shadow-law scenario: one iteration, one active scope at
\* a time, the values 1 and 2, three recorded values beside the iteration key
ShadowUniverse ==
  [iter |-> 1, depth |-> 1, leaves |-> 4,
   keys |-> {loss, acc}, scopenames |-> {train, eval}, scopeargs |-> {},
   statickeys |-> {}, values |-> {1, 2}, lastkeys |-> {loss}, files |-> {}]

\* the caller of the extended export: a static key, the same name as a
\* dynamic key, and a dynamic key that starts with the static prefix
ExtendedUniverse ==
  [iter |-> ExtMaxIter, depth |-> 0, leaves |-> ExtMaxLeaves,
   keys |-> {loss, s_loss}, scopenames |-> {}, scopeargs |-> {},
   statickeys |-> {loss}, values |-> {1, 2}, lastkeys |-> {}, files |-> {}]

\* the caller that saves Logs to files and merges them
MergeUniverse ==
  [iter |-> MergeMaxIter, depth |-> 0, leaves |-> MergeMaxLeaves,
   keys |-> {loss, acc, s_loss}, scopenames |-> {}, scopeargs |-> {},
   statickeys |-> {loss}, values |-> {1}, lastkeys |-> {},
   files |-> {f0, f1}]

\* the caller that restores the state of one Log from the file of another
StateUniverse ==
  [iter |-> StateMaxIter, depth |-> 0, leaves |-> StateMaxLeaves,
   keys |-> {loss}, scopenames |-> {}, scopeargs |-> {},
   statickeys |-> {}, values |-> {1}, lastkeys |-> {}, files |-> {f0}]

KwArgs(U) == {<<>>} \cup {<<<<k, IntV(x)>>>> : k \in U.keys, x \in U.values}

(***************************************************************************)
(* The size of a Log, for the guards that keep the model finite.           *)
(***************************************************************************)
RECURSIVE CountLeaves(_)
RECURSIVE SumLeaves(_, _)
CountLeaves(x) == IF IsDict(x) THEN SumLeaves(x.d, DOMAIN x.d) ELSE 1
SumLeaves(f, S) ==
  IF S = {} THEN 0
  ELSE LET k == CHOOSE k \in S : TRUE
       IN  CountLeaves(f[k]) + SumLeaves(f, S \ {k})

Leaves(log) == SumLeaves(log.d_var, DOMAIN log.d_var)

Within(log, U) ==
  /\ Len(log.d_var) <= U.iter
  /\ log.t < U.iter
  /\ Len(log.scopes) <= U.depth
  /\ Leaves(log) <= U.leaves

(***************************************************************************)
(* The state machine: a caller of one Log, one call at a time. After a     *)
(* call, ret holds the call: its name, its arguments, the Log before it    *)
(* (pre), the exception it raised and the value it returned; the Log after *)
(* it is the state. The caller takes the outcome (Return) and calls again. *)
(***************************************************************************)
NoRet == [op |-> "", args |-> <<>>, pre |-> NewLog, exc |-> "", val |-> None]

Apply(r) ==
  /\ s_var' = r.log.s_var
  /\ d_var' = r.log.d_var
  /\ t' = r.log.t
  /\ scopes' = r.log.scopes

Init ==
  /\ s_var = NewLog.s_var
  /\ d_var = NewLog.d_var
  /\ t = NewLog.t
  /\ scopes = NewLog.scopes
  /\ fs = [f \in {} |-> NewLog]
  /\ ret = NoRet

Call(op, args, r, U) ==
  /\ ret.op = ""
  /\ Within(r.log, U)
  /\ Apply(r)
  /\ ret' = [op |-> op, args |-> args, pre |-> Self, exc |-> r.exc, val |-> r.ret]
  /\ UNCHANGED fs

Return ==
  /\ ret.op # ""
  /\ ret' = NoRet
  /\ UNCHANGED <<s_var, d_var, t, scopes, fs>>

NewIteration(U) == Call("new_iteration", <<>>, new_iteration(Self), U)

PushScope(U) ==
  \E name \in U.scopenames :
    Call("push_scope", <<name>>, push_scope(Self, name), U)

PushScopes(U) ==
  \E names \in U.scopeargs :
    Call("push_scopes", <<names>>, push_scopes(Self, names), U)

PopScope(U) == Call("pop_scope", <<>>, pop_scope(Self), U)

PopScopes(U) ==
  \E n \in 0..U.depth : Call("pop_scopes", <<n>>, pop_scopes(Self, n), U)

AddStaticValue(U) ==
  \E key \in U.statickeys, value \in U.values :
    Call("add_static_value", <<key, value>>,
         add_static_value(Self, key, value), U)

AddDynamicValue(U) ==
  \E key \in U.keys, value \in U.values :
    Call("add_dynamic_value", <<key, IntV(value)>>,
         add_dynamic_value(Self, key, IntV(value)), U)

AddDynamicValues(U) ==
  \E scope_ \in U.scopeargs, kwargs \in KwArgs(U) :
    /\ Within(push_scopes(Self, scope_).log, U)
    /\ Call("add_dynamic_values", <<scope_, kwargs>>,
            add_dynamic_values(Self, scope_, kwargs), U)

GetLastDynamicValue(U) ==
  \E key \in U.lastkeys :
    Call("get_last_dynamic_value", <<key>>,
         get_last_dynamic_value(Self, key), U)

\* the names asked for: the columns of the Log and the names of its scopes
GetScopedValue(U) ==
  \E i \in 0..(Len(d_var) - 1),
     name \in _generate_columns_names(Self).cols \cup U.scopenames \cup U.keys :
    Call("get_scoped_value", <<i, name>>, get_scoped_value(Self, i, name), U)

ToArray(U) ==
  \E names \in ListsOf(_generate_columns_names(Self).cols) :
    Call("to_array", <<names>>, to_array(Self, names), U)

ToExtendedArray(U) ==
  \E names \in ListsOf(_generate_columns_names(Self).cols) :
    Call("to_extended_array", <<names>>, to_extended_array(Self, names), U)

\* log = Log()
NewLogCall(U) == Call("__init__", <<>>, Ok(NewLog, None), U)

\* log.save_file(filename)
SaveFile(U) ==
  \E filename \in U.files :
    /\ ret.op = ""
    /\ fs' = save_file(fs, Self, filename)
    /\ ret' = [op |-> "save_file", args |-> <<filename>>, pre |-> Self,
               exc |-> "", val |-> None]
    /\ UNCHANGED <<s_var, d_var, t, scopes>>

\* log.set_state(pickle.load(open(filename, "rb")).get_state())
SetState(U) ==
  \E filename \in DOMAIN fs :
    Call("set_state", <<get_state(fs[filename])>>,
         set_state(Self, get_state(fs[filename])), U)

\* the lists of at most n names of files that exist
FileLists(n) == UNION {[1..k -> DOMAIN fs] : k \in 0..n}

\* one arrangement of its columns for each Log of the list
RECURSIVE ListsFor(_)
ListsFor(filenames) ==
  IF filenames = <<>> THEN {<<>>}
  ELSE { <<l>> \o ls :
           l \in ListsOf(_generate_columns_names(fs[Head(filenames)]).cols),
           ls \in ListsFor(Tail(filenames)) }

LogsToDataframe(U) ==
  \E filenames \in FileLists(MaxMerged) :
    \E lists \in ListsFor(filenames) :
      Call("logs_to_dataframe", <<filenames, lists>>,
           [log |-> Self] @@ logs_to_dataframe(fs, filenames, lists), U)

Next ==
  \/ NewIteration(Universe)
  \/ PushScope(Universe)
  \/ PopScope(Universe)
  \/ AddDynamicValue(Universe)
  \/ GetLastDynamicValue(Universe)
  \/ GetScopedValue(Universe)
  \/ ToArray(Universe)
  \/ Return

Spec == Init /\ [][Next]_vars

NextScopes ==
  \/ NewIteration(ScopesUniverse)
  \/ PushScope(ScopesUniverse)
  \/ PushScopes(ScopesUniverse)
  \/ PopScope(ScopesUniverse)
  \/ PopScopes(ScopesUniverse)
  \/ AddDynamicValues(ScopesUniverse)
  \/ Return

SpecScopes == Init /\ [][NextScopes]_vars

NextShadow ==
  \/ NewIteration(ShadowUniverse)
  \/ PushScope(ShadowUniverse)
  \/ PopScope(ShadowUniverse)
  \/ AddDynamicValue(ShadowUniverse)
  \/ GetLastDynamicValue(ShadowUniverse)
  \/ Return

SpecShadow == Init /\ [][NextShadow]_vars

NextExtended ==
  \/ NewIteration(ExtendedUniverse)
  \/ AddStaticValue(ExtendedUniverse)
  \/ AddDynamicValue(ExtendedUniverse)
  \/ ToExtendedArray(ExtendedUniverse)
  \/ Return

SpecExtended == Init /\ [][NextExtended]_vars

NextMerge ==
  \/ NewLogCall(MergeUniverse)
  \/ NewIteration(MergeUniverse)
  \/ AddStaticValue(MergeUniverse)
  \/ AddDynamicValue(MergeUniverse)
  \/ SaveFile(MergeUniverse)
  \/ LogsToDataframe(MergeUniverse)
  \/ Return

SpecMerge == Init /\ [][NextMerge]_vars

NextState ==
  \/ NewLogCall(StateUniverse)
  \/ NewIteration(StateUniverse)
  \/ AddDynamicValue(StateUniverse)
  \/ PopScope(StateUniverse)
  \/ SaveFile(StateUniverse)
  \/ SetState(StateUniverse)
  \/ Return

SpecState == Init /\ [][NextState]_vars

(***************************************************************************)
(* What the properties speak of.                                           *)
(***************************************************************************)
Called(op) == ret.op = op

Missing == [kind |-> "missing", v |-> 0, d |-> <<>>]

\* the value under the keys of path, one after the other, from node on
RECURSIVE NodeAt(_, _)
NodeAt(node, path) ==
  IF path = <<>> THEN node
  ELSE IF IsDict(node) /\ Head(path) \in DOMAIN node.d
       THEN NodeAt(node.d[Head(path)], Tail(path))
  ELSE Missing

RECURSIVE KeysIn(_)
KeysIn(node) ==
  IF IsDict(node)
  THEN DOMAIN node.d \cup UNION {KeysIn(node.d[k]) : k \in DOMAIN node.d}
  ELSE {}

Max(S) == CHOOSE x \in S : \A y \in S : y <= x

RECURSIVE Height(_)
Height(node) ==
  IF IsDict(node)
  THEN 1 + Max({0} \cup {Height(node.d[k]) : k \in DOMAIN node.d})
  ELSE 0

SeqsUpTo(S, n) == UNION {[1..k -> S] : k \in 0..n}

\* the dotted paths of the scalar leaves of a tree: the keys on the way to
\* the leaf, joined by "."
LeafPathsOf(tree) ==
  {Join(p) : p \in {q \in SeqsUpTo(KeysIn(tree), Height(tree)) :
                      NodeAt(tree, q).kind = "int"}}

AllLeafPaths == UNION {LeafPathsOf(d_var[i]) : i \in DOMAIN d_var}

NoDuplicates(l) == \A i, j \in DOMAIN l : l[i] = l[j] => i = j

(***************************************************************************)
(* C1: after any sequence of push_scope, pop_scope, new_iteration and      *)
(* add_dynamic_value calls that never write "_iteration" themselves, every *)
(* iteration i in 0..t has the key "_iteration" at the top level of its    *)
(* tree, with the value i.                                                 *)
(***************************************************************************)
C1_IterationKeyAtTop ==
  \A i \in 0..t :
    /\ ITERATION_KEY \in DOMAIN d_var[i + 1].d
    /\ d_var[i + 1].d[ITERATION_KEY] = IntV(i)

(***************************************************************************)
(* C2: once an iteration has started, len(d_var) = t + 1 in every state,   *)
(* also after a call that failed (set_state on a Log that has iterations). *)
(***************************************************************************)
C2_LengthIsIndexPlusOne ==
  (Len(d_var) > 0 \/ t >= 0) => Len(d_var) = t + 1

(***************************************************************************)
(* C3: for a name that is not the path of a scalar leaf of iteration i,    *)
(* get_scoped_value(i, name) returns None and does not raise, and to_array *)
(* does not raise and holds None in that cell.                             *)
(***************************************************************************)
C3_SparseNull ==
  /\ Called("get_scoped_value") =>
       (ret.args[2] \notin LeafPathsOf(d_var[ret.args[1] + 1]) =>
          ret.exc = "" /\ ret.val = None)
  /\ Called("to_array") =>
       /\ ret.exc = ""
       /\ \A r \in DOMAIN ret.val.rows, c \in DOMAIN ret.val.header :
            ret.val.header[c] \notin LeafPathsOf(d_var[r]) =>
              ret.val.rows[r][c] = None

(***************************************************************************)
(* C4: with an active iteration, get_last_dynamic_value(key) returns the   *)
(* value of key at the deepest level, along the longest prefix of the      *)
(* active scopes that is a chain of nested scopes of the current tree (the *)
(* root included), that has the key, None when no level has it; it does    *)
(* not raise and it leaves the Log as it was.                              *)
(***************************************************************************)
ChainLen(tree, sc) ==
  Max({k \in 0..Len(sc) :
         \A j \in 1..k : IsDict(NodeAt(tree, SubSeq(sc, 1, j)))})

LevelsWith(tree, sc, key) ==
  {j \in 0..ChainLen(tree, sc) : key \in DOMAIN NodeAt(tree, SubSeq(sc, 1, j)).d}

ShadowedValue(tree, sc, key) ==
  IF LevelsWith(tree, sc, key) = {} THEN None
  ELSE NodeAt(tree, Append(SubSeq(sc, 1, Max(LevelsWith(tree, sc, key))), key))

C4_ShadowedLookup ==
  (Called("get_last_dynamic_value") /\ ret.pre.t >= 0) =>
    /\ ret.exc = ""
    /\ ret.val = ShadowedValue(ret.pre.d_var[ret.pre.t + 1], ret.pre.scopes,
                               ret.args[1])
    /\ Self = ret.pre

(***************************************************************************)
(* C5: the shadow-law scenario. One iteration holds loss = 1 at the root   *)
(* and loss = 2 under "train". With "train" the active scope,              *)
(* get_last_dynamic_value("loss") returns 2. With "eval" the active scope  *)
(* and no loss under it, it returns 1, whether "eval" is a scope of the    *)
(* tree or not. (As stated: 2 when "eval" is a scope of the tree.)         *)
(***************************************************************************)
ShadowTree ==
  /\ Len(d_var) = 1
  /\ NodeAt(d_var[1], <<loss>>) = IntV(1)
  /\ NodeAt(d_var[1], <<train, loss>>) = IntV(2)

AskedLossUnder(scope) ==
  /\ Called("get_last_dynamic_value")
  /\ ret.args = <<loss>>
  /\ ShadowTree
  /\ scopes = <<scope>>

EvalIsScope == IsDict(NodeAt(d_var[1], <<eval>>))

AskedLossUnderEval ==
  /\ AskedLossUnder(eval)
  /\ NodeAt(d_var[1], <<eval, loss>>) = Missing

C5_ShadowLaw ==
  /\ AskedLossUnder(train) => (ret.exc = "" /\ ret.val = IntV(2))
  /\ AskedLossUnderEval => (ret.exc = "" /\ ret.val = IntV(1))

C5_ShadowLawAsStated ==
  /\ AskedLossUnder(train) => (ret.exc = "" /\ ret.val = IntV(2))
  /\ AskedLossUnderEval =>
       (ret.exc = "" /\ ret.val = IF EvalIsScope THEN IntV(2) ELSE IntV(1))

C5_Witness == AskedLossUnderEval /\ EvalIsScope

(***************************************************************************)
(* C6: the header of to_array has no name twice and is, as a set, the set  *)
(* of the dotted paths of the scalar leaves of all the iterations: a leaf  *)
(* of one iteration only is a column, the path of a scope is not.          *)
(***************************************************************************)
C6_HeaderCompleteness ==
  Called("to_array") =>
    /\ NoDuplicates(ret.args[1])
    /\ Range(ret.args[1]) = AllLeafPaths
    /\ ret.exc = "" => ret.val.header = ret.args[1]

C6_Witness ==
  /\ Called("to_array")
  /\ ret.exc = ""
  /\ Len(d_var) = 2
  /\ \E c \in DOMAIN ret.val.header :
       /\ Len(Split(ret.val.header[c])) > 1
       /\ ret.val.header[c] \in LeafPathsOf(d_var[2])
       /\ ret.val.header[c] \notin LeafPathsOf(d_var[1])

(***************************************************************************)
(* C7: to_extended_array returns one row for each iteration and does not   *)
(* raise; in row i the cell of the static column "_s_" + k is s_var[k] and *)
(* the cell of the dynamic column c is get_scoped_value(i, c).             *)
(***************************************************************************)
C7_ExtendedBroadcast ==
  Called("to_extended_array") =>
    /\ ret.exc = ""
    /\ Len(ret.val.rows) = Len(d_var)
    /\ \A r \in DOMAIN ret.val.rows :
         /\ \A j \in DOMAIN s_var :
              ret.val.rows[r][1 + Len(ret.args[1]) + j] = IntV(s_var[j][2])
         /\ \A c \in DOMAIN ret.args[1] :
              ret.val.rows[r][1 + c] =
                get_scoped_value(Self, r - 1, ret.args[1][c]).ret

(***************************************************************************)
(* C8: logs_to_dataframe does not raise; its header is "_log_idx",         *)
(* "_log_file" and then the union of the extended headers; it has one row  *)
(* for each iteration of each Log, by Log and then by iteration; the row   *)
(* of iteration r of the i-th Log holds i, the name of its file, under     *)
(* each column of that Log's extended header the cell of its extended row  *)
(* and None under every other column.                                      *)
(***************************************************************************)
ExtendedOf(i) == to_extended_array(fs[ret.args[1][i]], ret.args[2][i]).ret

RECURSIVE RowsBefore(_)
RowsBefore(i) ==
  IF i <= 1 THEN 0
  ELSE RowsBefore(i - 1) + Len(fs[ret.args[1][i - 1]].d_var)

C8_MergeUnion ==
  Called("logs_to_dataframe") =>
    /\ ret.exc = ""
    /\ SubSeq(ret.val.header, 1, 2) = <<LOG_IDX, LOG_FILE>>
    /\ NoDuplicates(ret.val.header)
    /\ Range(SubSeq(ret.val.header, 3, Len(ret.val.header))) =
         UNION {Range(ExtendedOf(i).header) : i \in DOMAIN ret.args[1]}
    /\ Len(ret.val.rows) = RowsBefore(Len(ret.args[1]) + 1)
    /\ \A i \in DOMAIN ret.args[1] :
         \A r \in DOMAIN ExtendedOf(i).rows :
           LET line == ret.val.rows[RowsBefore(i) + r]
           IN  /\ line[1] = IntV(i - 1)
               /\ line[2] = StrV(ret.args[1][i])
               /\ \A c \in 3..Len(ret.val.header) :
                    IF ret.val.header[c] \in Range(ExtendedOf(i).header)
                    THEN \E j \in DOMAIN ExtendedOf(i).header :
                           /\ ExtendedOf(i).header[j] = ret.val.header[c]
                           /\ line[c] = ExtendedOf(i).rows[r][j]
                    ELSE line[c] = None

(***************************************************************************)
(* C9: push_scopes(names) appends the names it was given, in order (a      *)
(* string split on "."), and returns how many; pop_scopes of that count    *)
(* gives back the scopes of before; for None, the empty list and the empty *)
(* string it changes nothing and returns 0.                                *)
(***************************************************************************)
GivenNames(arg) ==
  IF arg.kind = "None" THEN <<>>
  ELSE IF arg.kind = "list" THEN arg.list
  ELSE IF arg.str = <<>> THEN <<>>
  ELSE Split(arg.str)

C9_PushScopes ==
  Called("push_scopes") =>
    /\ ret.exc = ""
    /\ scopes = ret.pre.scopes \o GivenNames(ret.args[1])
    /\ ret.val = IntV(Len(GivenNames(ret.args[1])))
    /\ pop_scopes(Self, ret.val.v).exc = ""
    /\ pop_scopes(Self, ret.val.v).log.scopes = ret.pre.scopes

(***************************************************************************)
(* C10: with t >= 0, add_dynamic_value(key, value) does not raise, leaves  *)
(* the earlier iterations, the scopes and t as they were, and afterwards   *)
(* get_scoped_value(t, the scopes and the key joined by ".") is value.     *)
(***************************************************************************)
C10_AddThenGet ==
  (Called("add_dynamic_value") /\ ret.pre.t >= 0) =>
    /\ ret.exc = ""
    /\ \A i \in 1..t : d_var[i] = ret.pre.d_var[i]
    /\ scopes = ret.pre.scopes
    /\ t = ret.pre.t
    /\ get_scoped_value(Self, t, Join(Append(scopes, ret.args[1]))).exc = ""
    /\ get_scoped_value(Self, t, Join(Append(scopes, ret.args[1]))).ret =
         ret.args[2]

====
